---- MODULE Spec2Model ----
(***************************************************************************)
(* The extraction worker of worker/app: the job-leasing protocol of db.py  *)
(* (fetch_one_job, mark_job), the statement assembler of main.py           *)
(* (ensure_statements, insert_lines), the engine of parser.py (parse_mvp)  *)
(* and the worker loop main(), run by several processes against one        *)
(* PostgreSQL database.  Every process owns one connection opened with     *)
(* autocommit=False: its statements run in a transaction whose writes are  *)
(* private until conn.commit() and are discarded by conn.rollback(); a     *)
(* statement the server rejects leaves the transaction aborted, and every  *)
(* later statement on it is rejected too until a rollback.                 *)
(***************************************************************************)
EXTENDS Integers, Sequences, FiniteSets, TLC

\* ------------------------------------------------------------- bounds
NumWorkers == 2
MaxJobs == 2
MaxFilings == 2
MaxBlocks == 1
MaxAnchors == 2
MaxLines == 1
MaxIndices == 1

Workers == 1..NumWorkers
Jobs == 1..MaxJobs
Filings == 1..MaxFilings
Times == 1..MaxJobs

NoWorker == 0
NoJob == 0
NoCall == -1
NULL == <<0, 0>>

\* ------------------------------------------------------------- texts
\* Job.status values (db.py:10, db.py:20, main.py:48, main.py:51)
Queued == "queued"
Processing == "processing"
Succeeded == "succeeded"
Failed == "failed"

\* values of job.error: SQL NULL, or str(e) of the exception caught in main
NoError == "NULL"
RetrievalError == "404 Client Error: Not Found"
ExtractionError == "cannot open broken document"
DatabaseError == "server rejected the statement"
ClientError == "'caption'"
IndexError == "list index out of range"
NoException == "none"

\* the two statement kinds (main.py:16-21)
BalanceSheet == "balance_sheet"
Pnl == "pnl"
Kinds == {BalanceSheet, Pnl}

\* ------------------------------------------------------------- parser.py
\* CAPTIONS, in the order the dict is iterated
CAPTIONS == <<"total_assets", "total_equity_liabilities">>
Keys == {CAPTIONS[i] : i \in DOMAIN CAPTIONS}

\* caption_map of parse_mvp
caption_map(key) ==
    IF key = "total_assets" THEN "Total Assets" ELSE "Total Equity and Liabilities"

\* A document is the sequence of its text blocks in page order, as
\* extract_text_blocks returns them; a block is abstracted to its 0-based
\* page number and the set of CAPTIONS keys one of whose patterns its text
\* matches.
RECURSIVE SeqsUpTo(_, _)
SeqsUpTo(S, n) ==
    IF n = 0 THEN {<<>>}
    ELSE LET shorter == SeqsUpTo(S, n - 1)
         IN shorter \cup {Append(s, x) : s \in {t \in shorter : Len(t) = n - 1}, x \in S}

Docs ==
    {[i \in 1..Len(d) |-> [page |-> i - 1, text |-> d[i]]] :
        d \in SeqsUpTo(SUBSET Keys, MaxBlocks)}

\* find_first: the first block one of the patterns of `key` matches, 0 if none
find_first(doc, key) ==
    LET hits == {i \in 1..Len(doc) : key \in doc[i].text}
    IN IF hits = {} THEN 0 ELSE CHOOSE i \in hits : \A k \in hits : i <= k

\* parse_key with anchor indices counted from 1: anc_idx taken after the
\* anchor is appended
parse_key_index_from_one(doc, acc, key) ==
    LET b == find_first(doc, key)
    IN IF b = 0 THEN acc
       ELSE LET anc_idx == Len(acc.anchors) + 1
            IN [anchors |-> Append(acc.anchors,
                                [page |-> doc[b].page + 1, snippet |-> key]),
                lines |-> Append(acc.lines,
                                [statement_type |-> BalanceSheet,
                                 caption |-> caption_map(key),
                                 anchor_indices |-> <<anc_idx>>])]

\* one iteration of the loop of parse_mvp over CAPTIONS.items()
parse_key(doc, acc, key) ==
    LET b == find_first(doc, key)
    IN IF b = 0 THEN acc
       ELSE LET anc_idx == Len(acc.anchors)
            IN [anchors |-> Append(acc.anchors,
                                [page |-> doc[b].page + 1, snippet |-> key]),
                lines |-> Append(acc.lines,
                                [statement_type |-> BalanceSheet,
                                 caption |-> caption_map(key),
                                 anchor_indices |-> <<anc_idx>>])]

RECURSIVE parse_loop(_, _, _)
parse_loop(doc, acc, k) ==
    IF k > Len(CAPTIONS) THEN acc
    ELSE parse_loop(doc, parse_key(doc, acc, CAPTIONS[k]), k + 1)

parse_mvp(doc) == parse_loop(doc, [anchors |-> <<>>, lines |-> <<>>], 1)

EmptyResult == [anchors |-> <<>>, lines |-> <<>>]

\* ------------------------------------------------------------- state
VARIABLES
    job,             \* committed table job: id -> row
    lock,            \* row locks of table job: id -> holding worker
    statement,       \* committed table statement
    anchor,          \* committed table anchor
    statement_line,  \* committed table statement_line
    datum_anchor,    \* committed table datum_anchor
    txn,             \* per connection: the uncommitted writes of its transaction
    conn,            \* per connection: transaction status
    seq,             \* per connection: count of identities it drew
    pc,              \* per worker: position in main()
    cur,             \* per worker: job['id'] of the leased job
    result,          \* per worker: result of parse_mvp
    anc_ids,         \* per worker: anc_ids of insert_lines
    li,              \* per worker: position of `line` in lines
    ki,              \* per worker: position of `idx` in line['anchor_indices']
    line_id,         \* per worker: line_id of insert_lines
    exc,             \* per worker: str(e) of the exception being handled
    raised,          \* history: per job, the exception raised while processing it
    leases,          \* history: per job, number of fetch_one_job calls that returned it
    returned,        \* history: per worker, what its last fetch_one_job returned
    engine,          \* history: per job, the engine result its insert_lines committed
    es_calls,        \* history: per filing, completed ensure_statements calls
    il_failed        \* history: jobs whose insert_lines call raised

dbvars == <<job, lock, statement, anchor, statement_line, datum_anchor>>
locals == <<result, anc_ids, li, ki, line_id>>
history == <<raised, leases, returned, engine, es_calls, il_failed>>
vars == <<job, lock, statement, anchor, statement_line, datum_anchor, txn, conn,
          seq, pc, cur, result, anc_ids, li, ki, line_id, exc, raised, leases,
          returned, engine, es_calls, il_failed>>

\* ------------------------------------------------------------- database
NoWrites ==
    [job_status |-> [j \in Jobs |-> ""], job_error |-> [j \in Jobs |-> ""],
     statement |-> {}, anchor |-> {}, statement_line |-> {}, datum_anchor |-> {}]

\* the identity a connection's next INSERT ... RETURNING id receives
NewId(w) == <<w, seq[w] + 1>>

\* rows of a table as a statement of connection w sees them: committed rows
\* and the rows its own transaction wrote
Visible(w, committed, own) == committed \cup own

\* a job row after the UPDATEs of a transaction (writes `wr`) are applied
Updated(row, wr, j) ==
    [row EXCEPT
        !.status = IF wr.job_status[j] = "" THEN @ ELSE wr.job_status[j],
        !.error = IF wr.job_error[j] = "" THEN @ ELSE wr.job_error[j]]

\* CommitWrites of a transaction that replaces what a filing had: lines,
\* anchors and links of the filings it wrote anchors for are deleted first
CommitWrites_replacing(w, wr) ==
    LET fs == {a.filing_id : a \in wr.anchor}
        old == {a \in anchor : a.filing_id \in fs}
    IN /\ job' = [j \in Jobs |-> Updated(job[j], wr, j)]
       /\ statement' = statement \cup wr.statement
       /\ anchor' = (anchor \ old) \cup wr.anchor
       /\ statement_line' =
             {l \in statement_line : l.by \notin {a.by : a \in old}}
                \cup wr.statement_line
       /\ datum_anchor' =
             {d \in datum_anchor : d.anchor_id \notin {a.id : a \in old}}
                \cup wr.datum_anchor
       /\ lock' = [j \in Jobs |-> IF lock[j] = w THEN NoWorker ELSE lock[j]]
       /\ txn' = [txn EXCEPT ![w] = NoWrites]
       /\ conn' = [conn EXCEPT ![w] = "idle"]

\* the writes `wr` of connection w's transaction become visible and its row
\* locks are released
CommitWrites(w, wr) ==
    /\ job' = [j \in Jobs |-> Updated(job[j], wr, j)]
    /\ statement' = statement \cup wr.statement
    /\ anchor' = anchor \cup wr.anchor
    /\ statement_line' = statement_line \cup wr.statement_line
    /\ datum_anchor' = datum_anchor \cup wr.datum_anchor
    /\ lock' = [j \in Jobs |-> IF lock[j] = w THEN NoWorker ELSE lock[j]]
    /\ txn' = [txn EXCEPT ![w] = NoWrites]
    /\ conn' = [conn EXCEPT ![w] = "idle"]

\* conn.commit()
Commit(w) == CommitWrites(w, txn[w])

\* conn.rollback(): the transaction's writes are discarded, its locks released
Rollback(w) ==
    /\ lock' = [j \in Jobs |-> IF lock[j] = w THEN NoWorker ELSE lock[j]]
    /\ txn' = [txn EXCEPT ![w] = NoWrites]
    /\ conn' = [conn EXCEPT ![w] = "idle"]
    /\ UNCHANGED <<job, statement, anchor, statement_line, datum_anchor>>


\* ------------------------------------------------------------- db.py
\* Lockable without FOR UPDATE SKIP LOCKED: rows another transaction holds are
\* returned too
Lockable_ignoring_locks(w) == {j \in Jobs : job[j].status = Queued}

\* Lockable without WHERE status='queued': any row no other transaction holds
Lockable_any_status(w) == {j \in Jobs : lock[j] = NoWorker}

\* rows the SELECT of fetch_one_job may return to connection w: committed
\* status 'queued' and, by FOR UPDATE SKIP LOCKED, locked by no other
\* transaction
Lockable(w) == {j \in Jobs : job[j].status = Queued /\ lock[j] = NoWorker}

\* LIMIT 1 without ORDER BY created_at: any candidate row
Oldest_unordered(C) == C

\* ORDER BY created_at LIMIT 1: a row no other candidate precedes; rows that
\* tie on created_at come in an order the server chooses
Oldest(C) == {j \in C : \A k \in C : job[j].created_at <= job[k].created_at}

\* Candidates with LIMIT 1 applied before the locked rows are skipped: the
\* oldest queued row, or nothing when another transaction holds it
Candidates_limit_first(w) ==
    {j \in Oldest({k \in Jobs : job[k].status = Queued}) : lock[j] = NoWorker}

\* the rows the SELECT of fetch_one_job may return: locked rows are skipped
\* before LIMIT 1 takes the first row left
Candidates(w) == Oldest(Lockable(w))

\* fetch_one_job, db.py:7-15 and 19: the SELECT finds a row and locks it;
\* cur.fetchone() is taken to yield the row of the SELECT of the two-statement
\* query text
fetch_one_job_select(w) ==
    /\ pc[w] = "lease"
    /\ \E j \in Candidates(w) :
          /\ lock' = [lock EXCEPT ![j] = w]
          /\ cur' = [cur EXCEPT ![w] = j]
    /\ conn' = [conn EXCEPT ![w] = "intrans"]
    /\ pc' = [pc EXCEPT ![w] = "fj_update"]
    /\ UNCHANGED <<job, statement, anchor, statement_line, datum_anchor, txn, seq,
                   locals, exc, history>>

\* fetch_one_job, db.py:7-16: the SELECT finds no row; the transaction BEGIN
\* opened holds no row lock
fetch_one_job_none(w) ==
    /\ pc[w] = "lease"
    /\ Candidates(w) = {}
    /\ conn' = [conn EXCEPT ![w] = "intrans"]
    /\ pc' = [pc EXCEPT ![w] = "fj_none"]
    /\ UNCHANGED <<dbvars, txn, seq, cur, locals, exc, history>>

\* fetch_one_job that returns None with its transaction left open
fetch_one_job_return_none(w) ==
    /\ pc[w] = "fj_none"
    /\ returned' = [returned EXCEPT ![w] = NoJob]
    /\ pc' = [pc EXCEPT ![w] = "lease"]
    /\ UNCHANGED <<dbvars, txn, conn, seq, cur, locals, exc, raised, leases,
                   engine, es_calls, il_failed>>

\* fetch_one_job, db.py:16-18: rollback, return None. main, main.py:41-42:
\* sleep, leave the `with` block and start over
fetch_one_job_rollback(w) ==
    /\ pc[w] = "fj_none"
    /\ Rollback(w)
    /\ returned' = [returned EXCEPT ![w] = NoJob]
    /\ pc' = [pc EXCEPT ![w] = "lease"]
    /\ UNCHANGED <<seq, cur, locals, exc, raised, leases, engine, es_calls,
                   il_failed>>

\* fetch_one_job, db.py:20: UPDATE job SET status='processing'
fetch_one_job_update(w) ==
    /\ pc[w] = "fj_update"
    /\ txn' = [txn EXCEPT ![w].job_status[cur[w]] = Processing]
    /\ pc' = [pc EXCEPT ![w] = "fj_commit"]
    /\ UNCHANGED <<dbvars, conn, seq, cur, locals, exc, history>>

\* fetch_one_job, db.py:21-22: commit and return the job
fetch_one_job_commit(w) ==
    /\ pc[w] = "fj_commit"
    /\ Commit(w)
    /\ leases' = [leases EXCEPT ![cur[w]] = @ + 1]
    /\ returned' = [returned EXCEPT ![w] = cur[w]]
    /\ pc' = [pc EXCEPT ![w] = "es_bs"]
    /\ UNCHANGED <<seq, cur, locals, exc, raised, engine, es_calls, il_failed>>

\* mark_job whose UPDATE lacks WHERE id=%s: every job row is written
mark_job_every_row(w, job_id, status, error) ==
    CommitWrites(w, [txn[w] EXCEPT !.job_status = [j \in Jobs |-> status],
                                   !.job_error = [j \in Jobs |-> error]])

\* mark_job whose UPDATE does not set error
mark_job_dropping_error(w, job_id, status, error) ==
    CommitWrites(w, [txn[w] EXCEPT !.job_status[job_id] = status])

\* mark_job, db.py:23-26, on a connection whose transaction is not aborted:
\* the UPDATE, then commit of everything the transaction wrote
mark_job(w, job_id, status, error) ==
    CommitWrites(w, [txn[w] EXCEPT !.job_status[job_id] = status,
                                   !.job_error[job_id] = error])

\* ------------------------------------------------------------- main.py
\* job['filing_id'] of the job worker w leased
FilingOf(w) == job[cur[w]].filing_id

\* StatementMissing whose SELECT lacks the condition on type
StatementMissing_any_kind(w, filing_id, kind) ==
    ~ \E s \in Visible(w, statement, txn[w].statement) : s.filing_id = filing_id

\* ensure_statements, main.py:16-17 and 19-20: `not cur.fetchone()` of the
\* SELECT for statements of the filing of kind `kind`
StatementMissing(w, filing_id, kind) ==
    ~ \E s \in Visible(w, statement, txn[w].statement) :
          s.filing_id = filing_id /\ s.type = kind

\* ensure_statements, main.py:16-18 and 19-21: SELECT, and INSERT if no row
EnsureKind(w, kind) ==
    IF StatementMissing(w, FilingOf(w), kind)
    THEN /\ txn' = [txn EXCEPT ![w].statement = @ \cup
                      {[id |-> NewId(w), filing_id |-> FilingOf(w), type |-> kind,
                        by |-> cur[w]]}]
         /\ seq' = [seq EXCEPT ![w] = @ + 1]
    ELSE UNCHANGED <<txn, seq>>

ensure_statements_balance_sheet(w) ==
    /\ pc[w] = "es_bs"
    /\ EnsureKind(w, BalanceSheet)
    /\ conn' = [conn EXCEPT ![w] = "intrans"]
    /\ pc' = [pc EXCEPT ![w] = "es_pnl"]
    /\ UNCHANGED <<dbvars, cur, locals, exc, history>>

ensure_statements_pnl(w) ==
    /\ pc[w] = "es_pnl"
    /\ EnsureKind(w, Pnl)
    /\ pc' = [pc EXCEPT ![w] = "es_commit"]
    /\ UNCHANGED <<dbvars, conn, cur, locals, exc, history>>

\* ensure_statements, main.py:22
ensure_statements_commit(w) ==
    /\ pc[w] = "es_commit"
    /\ Commit(w)
    /\ es_calls' = [es_calls EXCEPT ![FilingOf(w)] = @ + 1]
    /\ pc' = [pc EXCEPT ![w] = "download"]
    /\ UNCHANGED <<seq, cur, locals, exc, raised, leases, returned, engine, il_failed>>

\* an exception raised inside the try block of main, main.py:43-49
Raise(w, text) ==
    /\ exc' = [exc EXCEPT ![w] = text]
    /\ raised' = [raised EXCEPT ![cur[w]] = text]
    /\ pc' = [pc EXCEPT ![w] = "except"]

\* download_pdf, main.py:7-13: the object store returns the document
download_pdf(w) ==
    /\ pc[w] = "download"
    /\ pc' = [pc EXCEPT ![w] = "parse"]
    /\ UNCHANGED <<dbvars, txn, conn, seq, cur, locals, exc, history>>

\* download_pdf, main.py:10: raise_for_status() raises
download_pdf_raises(w) ==
    /\ pc[w] = "download"
    /\ Raise(w, RetrievalError)
    /\ UNCHANGED <<dbvars, txn, conn, seq, cur, locals, leases, returned, engine,
                   es_calls, il_failed>>

\* where insert_lines starts for given arguments: the loops of main.py:26 and
\* main.py:30 are skipped when their sequence is empty
StartLines(res) == IF Len(res.lines) = 0 THEN "il_commit" ELSE "il_line"
StartAnchors(res) == IF Len(res.anchors) = 0 THEN StartLines(res) ELSE "il_anchor"

\* main.py:46-47: parse_mvp returns; insert_lines is entered with its result
parse_mvp_returns(w) ==
    /\ pc[w] = "parse"
    /\ \E doc \in Docs :
          /\ result' = [result EXCEPT ![w] = parse_mvp(doc)]
          /\ pc' = [pc EXCEPT ![w] = StartAnchors(parse_mvp(doc))]
    /\ anc_ids' = [anc_ids EXCEPT ![w] = <<>>]
    /\ li' = [li EXCEPT ![w] = 1]
    /\ UNCHANGED <<dbvars, txn, conn, seq, cur, ki, line_id, exc, history>>

\* parse_mvp, parser.py:24: fitz.open raises on a file it cannot read
parse_mvp_raises(w) ==
    /\ pc[w] = "parse"
    /\ Raise(w, ExtractionError)
    /\ UNCHANGED <<dbvars, txn, conn, seq, cur, locals, leases, returned, engine,
                   es_calls, il_failed>>

\* ------------------------------------------------------------- insert_lines
\* Python's anc_ids[idx]: an index below 0 counts from the end of the list; an
\* index outside -len..len-1 raises IndexError
InRange(s, idx) == -Len(s) <= idx /\ idx < Len(s)
PyIndex(s, idx) == IF idx >= 0 THEN s[idx + 1] ELSE s[Len(s) + idx + 1]

\* StatementIdOf without AND type=%s: any statement of the filing
StatementIdOf_any_kind(w, filing_id, kind) ==
    LET ids == {s.id : s \in {t \in Visible(w, statement, txn[w].statement) :
                                 t.filing_id = filing_id}}
    IN IF ids = {} THEN {NULL} ELSE ids

\* main.py:31: (SELECT id FROM statement WHERE filing_id=%s AND type=%s LIMIT 1),
\* the identities it may yield; NULL when no row matches
StatementIdOf(w, filing_id, kind) ==
    LET ids == {s.id : s \in {t \in Visible(w, statement, txn[w].statement) :
                                 t.filing_id = filing_id /\ t.type = kind}}
    IN IF ids = {} THEN {NULL} ELSE ids

\* the line and the anchor index the loops of insert_lines are at
Line(w) == result[w].lines[li[w]]
Idx(w) == Line(w).anchor_indices[ki[w]]

\* AfterLine with the loop over lines ending one line early
AfterLine_one_short(w) == IF li[w] + 1 < Len(result[w].lines) THEN "il_line" ELSE "il_commit"

\* the position after the links of the current line are done, main.py:30
AfterLine(w) == IF li[w] < Len(result[w].lines) THEN "il_line" ELSE "il_commit"

\* the identity list after one more anchor is inserted, main.py:29
AppendId(ids, id) == Append(ids, id)

\* insert_lines, main.py:26-29: INSERT INTO anchor ... RETURNING id
insert_lines_anchor(w) ==
    /\ pc[w] = "il_anchor"
    /\ LET n == Len(anc_ids[w])
           anc == result[w].anchors[n + 1]
       IN /\ txn' = [txn EXCEPT ![w].anchor = @ \cup
                       {[id |-> NewId(w), filing_id |-> FilingOf(w),
                         page |-> anc.page, snippet |-> anc.snippet,
                         by |-> cur[w], pos |-> n]}]
          /\ anc_ids' = [anc_ids EXCEPT ![w] = AppendId(@, NewId(w))]
          /\ pc' = [pc EXCEPT ![w] =
                      IF n + 1 < Len(result[w].anchors) THEN "il_anchor"
                      ELSE StartLines(result[w])]
    /\ seq' = [seq EXCEPT ![w] = @ + 1]
    /\ conn' = [conn EXCEPT ![w] = "intrans"]
    /\ UNCHANGED <<dbvars, cur, result, li, ki, line_id, exc, history>>

\* insert_lines, main.py:31-34: INSERT INTO statement_line ... RETURNING id;
\* the row remembers the line['statement_type'] its statement was looked up by
insert_lines_line(w) ==
    /\ pc[w] = "il_line"
    /\ \E sid \in StatementIdOf(w, FilingOf(w), Line(w).statement_type) :
          txn' = [txn EXCEPT ![w].statement_line = @ \cup
                    {[id |-> NewId(w), statement_id |-> sid,
                      caption |-> Line(w).caption,
                      statement_type |-> Line(w).statement_type,
                      by |-> cur[w], pos |-> li[w] - 1]}]
    /\ line_id' = [line_id EXCEPT ![w] = NewId(w)]
    /\ seq' = [seq EXCEPT ![w] = @ + 1]
    /\ conn' = [conn EXCEPT ![w] = "intrans"]
    /\ IF Len(Line(w).anchor_indices) > 0
       THEN /\ pc' = [pc EXCEPT ![w] = "il_link"]
            /\ ki' = [ki EXCEPT ![w] = 1]
            /\ li' = li
       ELSE /\ pc' = [pc EXCEPT ![w] = AfterLine(w)]
            /\ li' = [li EXCEPT ![w] = @ + 1]
            /\ ki' = ki
    /\ UNCHANGED <<dbvars, cur, result, anc_ids, exc, history>>

\* insert_lines, main.py:34-35: INSERT INTO datum_anchor with anc_ids[idx], or
\* the IndexError of anc_ids[idx]
insert_lines_link(w) ==
    /\ pc[w] = "il_link"
    /\ IF InRange(anc_ids[w], Idx(w))
       THEN /\ txn' = [txn EXCEPT ![w].datum_anchor = @ \cup
                         {[datum_id |-> line_id[w],
                           anchor_id |-> PyIndex(anc_ids[w], Idx(w)),
                           n |-> ki[w], by |-> cur[w]]}]
            /\ IF ki[w] < Len(Line(w).anchor_indices)
               THEN /\ ki' = [ki EXCEPT ![w] = @ + 1]
                    /\ UNCHANGED <<pc, li>>
               ELSE /\ pc' = [pc EXCEPT ![w] = AfterLine(w)]
                    /\ li' = [li EXCEPT ![w] = @ + 1]
                    /\ ki' = [ki EXCEPT ![w] = 1]
            /\ UNCHANGED <<exc, raised, il_failed>>
       ELSE /\ Raise(w, IndexError)
            /\ il_failed' = il_failed \cup {cur[w]}
            /\ UNCHANGED <<txn, li, ki>>
    /\ UNCHANGED <<dbvars, conn, seq, cur, result, anc_ids, line_id, leases,
                   returned, engine, es_calls>>

\* insert_lines, main.py:36
insert_lines_commit(w) ==
    /\ pc[w] = "il_commit"
    /\ Commit(w)
    /\ engine' = [engine EXCEPT ![cur[w]] = result[w]]
    /\ pc' = [pc EXCEPT ![w] = "mark_ok"]
    /\ UNCHANGED <<seq, cur, locals, exc, raised, leases, returned, es_calls,
                   il_failed>>

\* the positions of insert_lines at which a statement is sent to the server
Executing == {"il_anchor", "il_line", "il_link"}

\* insert_lines, main.py:27, 31, 35: the server rejects the statement (a
\* constraint, a lost connection); psycopg raises and the transaction is aborted
insert_lines_db_error(w) ==
    /\ pc[w] \in Executing
    /\ conn' = [conn EXCEPT ![w] = "aborted"]
    /\ Raise(w, DatabaseError)
    /\ il_failed' = il_failed \cup {cur[w]}
    /\ UNCHANGED <<dbvars, txn, seq, cur, locals, leases, returned, engine, es_calls>>

\* insert_lines, main.py:28 and 32, called with an anchor or a line that lacks
\* a key the code subscripts (anc['page'], line['caption'], ...): KeyError is
\* raised before the statement is sent, and the transaction is untouched.
\* The dicts parse_mvp builds hold every key, so main() never takes this step
insert_lines_client_error(w) ==
    /\ pc[w] \in Executing
    /\ Raise(w, ClientError)
    /\ il_failed' = il_failed \cup {cur[w]}
    /\ UNCHANGED <<dbvars, txn, conn, seq, cur, locals, leases, returned, engine,
                   es_calls>>

\* ------------------------------------------------------------- main
\* the end of one iteration of `while True`: the locals die, the `with` block
\* closes the connection
NextIteration(w) ==
    /\ pc' = [pc EXCEPT ![w] = "lease"]
    /\ cur' = [cur EXCEPT ![w] = NoJob]
    /\ result' = [result EXCEPT ![w] = EmptyResult]
    /\ anc_ids' = [anc_ids EXCEPT ![w] = <<>>]
    /\ li' = [li EXCEPT ![w] = 1]
    /\ ki' = [ki EXCEPT ![w] = 1]
    /\ line_id' = [line_id EXCEPT ![w] = NULL]
    /\ exc' = [exc EXCEPT ![w] = NoException]

\* main.py:48: mark_job(conn, job['id'], 'succeeded', None)
mark_job_succeeded(w) ==
    /\ pc[w] = "mark_ok"
    /\ mark_job(w, cur[w], Succeeded, NoError)
    /\ NextIteration(w)
    /\ UNCHANGED <<seq, history>>

\* main.py:49-51: mark_job(conn, job['id'], 'failed', str(e))
mark_job_failed(w) ==
    /\ pc[w] = "except"
    /\ conn[w] # "aborted"
    /\ mark_job(w, cur[w], Failed, exc[w])
    /\ NextIteration(w)
    /\ UNCHANGED <<seq, history>>

\* main.py:51 on an aborted transaction: the UPDATE of mark_job is rejected,
\* the exception leaves the except clause, the `with` block rolls back and
\* closes the connection, and main() ends with the exception
mark_job_failed_raises(w) ==
    /\ pc[w] = "except"
    /\ conn[w] = "aborted"
    /\ Rollback(w)
    /\ pc' = [pc EXCEPT ![w] = "crashed"]
    /\ UNCHANGED <<seq, cur, locals, exc, history>>

main(w) ==
    \/ fetch_one_job_select(w)
    \/ fetch_one_job_none(w)
    \/ fetch_one_job_rollback(w)
    \/ fetch_one_job_update(w)
    \/ fetch_one_job_commit(w)
    \/ ensure_statements_balance_sheet(w)
    \/ ensure_statements_pnl(w)
    \/ ensure_statements_commit(w)
    \/ download_pdf(w)
    \/ download_pdf_raises(w)
    \/ parse_mvp_returns(w)
    \/ parse_mvp_raises(w)
    \/ insert_lines_anchor(w)
    \/ insert_lines_line(w)
    \/ insert_lines_link(w)
    \/ insert_lines_commit(w)
    \/ insert_lines_db_error(w)
    \/ mark_job_succeeded(w)
    \/ mark_job_failed(w)
    \/ mark_job_failed_raises(w)

\* ------------------------------------------------------------- specification
\* The backlog intake left behind: every job queued, jobs numbered in the
\* order of their creation times (consecutive jobs tie or are one tick
\* apart), filings numbered in the order jobs first refer to them; no
\* statement exists yet.
Backlogs ==
    {b \in [Jobs -> [status : {Queued}, error : {NoError}, filing_id : Filings,
                     created_at : Times]] :
        /\ b[1].created_at = 1
        /\ \A j \in Jobs \ {1} : b[j].created_at - b[j - 1].created_at \in {0, 1}
        /\ \A j \in Jobs : \A f \in 1..(b[j].filing_id - 1) :
              \E k \in 1..(j - 1) : b[k].filing_id = f}

WorkersIdle ==
    /\ lock = [j \in Jobs |-> NoWorker]
    /\ txn = [w \in Workers |-> NoWrites]
    /\ conn = [w \in Workers |-> "idle"]
    /\ seq = [w \in Workers |-> 0]
    /\ pc = [w \in Workers |-> "lease"]
    /\ cur = [w \in Workers |-> NoJob]
    /\ result = [w \in Workers |-> EmptyResult]
    /\ anc_ids = [w \in Workers |-> <<>>]
    /\ li = [w \in Workers |-> 1]
    /\ ki = [w \in Workers |-> 1]
    /\ line_id = [w \in Workers |-> NULL]
    /\ exc = [w \in Workers |-> NoException]

NoHistory ==
    /\ raised = [j \in Jobs |-> NoException]
    /\ leases = [j \in Jobs |-> 0]
    /\ returned = [w \in Workers |-> NoCall]
    /\ engine = [j \in Jobs |-> EmptyResult]
    /\ es_calls = [f \in Filings |-> 0]
    /\ il_failed = {}

Init ==
    /\ job \in Backlogs
    /\ statement = {}
    /\ anchor = {}
    /\ statement_line = {}
    /\ datum_anchor = {}
    /\ WorkersIdle
    /\ NoHistory

Next == \E w \in Workers : main(w)

Spec == Init /\ [][Next]_vars

\* ------------------------------------------------------------- one lease each
\* N callers each perform one fetch_one_job call against a backlog in which
\* some jobs are queued and the others were completed before.
LeaseBacklogs ==
    {[j \in Jobs |-> [b[j] EXCEPT !.status = st[j]]] :
        b \in Backlogs, st \in [Jobs -> {Queued, Succeeded}]}

LeaseInit ==
    /\ job \in LeaseBacklogs
    /\ statement = {}
    /\ anchor = {}
    /\ statement_line = {}
    /\ datum_anchor = {}
    /\ WorkersIdle
    /\ NoHistory

lease_once(w) ==
    \/ returned[w] = NoCall /\ fetch_one_job_select(w)
    \/ returned[w] = NoCall /\ fetch_one_job_none(w)
    \/ fetch_one_job_rollback(w)
    \/ fetch_one_job_update(w)
    \/ fetch_one_job_commit(w)

LeaseNext == \E w \in Workers : lease_once(w)

LeaseSpec == LeaseInit /\ [][LeaseNext]_vars

\* ------------------------------------------------------------- one worker
\* A single worker process runs main() on the backlog: everything happens
\* sequentially on one connection at a time.
SeqNext == main(1)

SeqSpec == Init /\ [][SeqNext]_vars

\* ------------------------------------------------------------- the assembler
\* insert_lines called with arbitrary arguments, as by an engine other than
\* parse_mvp: worker 1 has leased job 1, ensure_statements has created the two
\* statements of its filing, and insert_lines is entered with any anchors and
\* any lines whose anchor indices are Python integers, negative and
\* out-of-range ones included; a dict may lack a key.
\* An index list holds no index twice: whether datum_anchor admits the same
\* link twice is decided by the table's declaration.
AnchorArgs ==
    {[i \in 1..n |-> [page |-> i, snippet |-> "snippet"]] : n \in 0..MaxAnchors}

IndexLists ==
    {s \in SeqsUpTo((-1)..MaxAnchors, MaxIndices) :
        \A a, b \in 1..Len(s) : a # b => s[a] # s[b]}

LineArgs ==
    SeqsUpTo([statement_type : Kinds, caption : {"caption"},
              anchor_indices : IndexLists], MaxLines)

AssemblerInit ==
    /\ job = [j \in Jobs |->
                [status |-> IF j = 1 THEN Processing ELSE Queued, error |-> NoError,
                 filing_id |-> 1, created_at |-> j]]
    /\ statement = {[id |-> <<1, 1>>, filing_id |-> 1, type |-> BalanceSheet, by |-> 1],
                    [id |-> <<1, 2>>, filing_id |-> 1, type |-> Pnl, by |-> 1]}
    /\ anchor = {}
    /\ statement_line = {}
    /\ datum_anchor = {}
    /\ lock = [j \in Jobs |-> NoWorker]
    /\ txn = [w \in Workers |-> NoWrites]
    /\ conn = [w \in Workers |-> "idle"]
    /\ seq = [w \in Workers |-> IF w = 1 THEN 2 ELSE 0]
    /\ cur = [w \in Workers |-> IF w = 1 THEN 1 ELSE NoJob]
    /\ \E anchors \in AnchorArgs, lines \in LineArgs :
          /\ result = [w \in Workers |->
                         IF w = 1 THEN [anchors |-> anchors, lines |-> lines]
                         ELSE EmptyResult]
          /\ pc = [w \in Workers |->
                     IF w = 1 THEN StartAnchors([anchors |-> anchors, lines |-> lines])
                     ELSE "lease"]
    /\ anc_ids = [w \in Workers |-> <<>>]
    /\ li = [w \in Workers |-> 1]
    /\ ki = [w \in Workers |-> 1]
    /\ line_id = [w \in Workers |-> NULL]
    /\ exc = [w \in Workers |-> NoException]
    /\ raised = [j \in Jobs |-> NoException]
    /\ leases = [j \in Jobs |-> IF j = 1 THEN 1 ELSE 0]
    /\ returned = [w \in Workers |-> IF w = 1 THEN 1 ELSE NoCall]
    /\ engine = [j \in Jobs |-> EmptyResult]
    /\ es_calls = [f \in Filings |-> IF f = 1 THEN 1 ELSE 0]
    /\ il_failed = {}

assemble(w) ==
    \/ insert_lines_anchor(w)
    \/ insert_lines_line(w)
    \/ insert_lines_link(w)
    \/ insert_lines_commit(w)
    \/ insert_lines_db_error(w)
    \/ insert_lines_client_error(w)
    \/ mark_job_succeeded(w)
    \/ mark_job_failed(w)
    \/ mark_job_failed_raises(w)

AssemblerNext == \E w \in Workers : assemble(w)

AssemblerSpec == AssemblerInit /\ [][AssemblerNext]_vars

\* ------------------------------------------------------------- properties
Min(a, b) == IF a <= b THEN a ELSE b

\* the workers a fetch_one_job call returned job j to and that have not yet
\* reported it: they hold j
Holders(j) == {w \in Workers : cur[w] = j /\ returned[w] = j}

\* C1. No double lease: in every interleaving of the select-lock, update and
\* commit steps of concurrent fetch_one_job calls, no job is returned by more
\* than one call, and no two workers hold the same job.
C1_NoDoubleLease ==
    /\ \A j \in Jobs : leases[j] <= 1
    /\ \A j \in Jobs : Cardinality(Holders(j)) <= 1

\* two workers hold two different leased jobs at the same time
C1_Witness ==
    \E w1, w2 \in Workers :
        /\ w1 # w2
        /\ cur[w1] # cur[w2]
        /\ pc[w1] = "es_bs" /\ pc[w2] = "es_bs"
        /\ leases[cur[w1]] = 1 /\ leases[cur[w2]] = 1

\* C5. Job status transitions: a job's committed status changes only from
\* queued to processing, by the commit of a fetch_one_job call that selected
\* it, or from processing to succeeded or failed, by mark_job of the worker
\* holding it; at most one worker holds a job at any time.
C5_Transition(j) ==
    \/ job'[j].status = job[j].status
    \/ /\ job[j].status = Queued
       /\ job'[j].status = Processing
       /\ \E w \in Workers : pc[w] = "fj_commit" /\ cur[w] = j
    \/ /\ job[j].status = Processing
       /\ job'[j].status \in {Succeeded, Failed}
       /\ \E w \in Holders(j) :
             /\ pc[w] = (IF job'[j].status = Succeeded THEN "mark_ok" ELSE "except")
             /\ pc'[w] = "lease"

C5_StatusTransitions ==
    [][\A j \in Jobs : C5_Transition(j) /\ Cardinality(Holders(j)) <= 1]_vars

\* one job succeeded and another failed while the backlog was shared
C5_Witness ==
    \E j, k \in Jobs : job[j].status = Succeeded /\ job[k].status = Failed

\* C6. Lease completeness: when every caller has made its one fetch_one_job
\* call against M queued jobs, exactly min(N, M) callers got a job, all
\* different, and the others got None; and a call returns None only when
\* every queued job is locked by another caller.
LeaseCallers == {w \in Workers : returned[w] # NoCall}
LeaseGot == {w \in Workers : returned[w] \in Jobs}
InitiallyQueued == {j \in Jobs : job[j].status \in {Queued, Processing}}

C6_AllReturned ==
    (LeaseCallers = Workers) =>
        /\ Cardinality(LeaseGot) = Min(NumWorkers, Cardinality(InitiallyQueued))
        /\ Cardinality({returned[w] : w \in LeaseGot}) = Cardinality(LeaseGot)
        /\ \A w \in Workers \ LeaseGot : returned[w] = NoJob

C6_NoneOnlyWhenClaimed ==
    \A w \in Workers :
        (returned[w] = NoCall /\ returned'[w] = NoJob) =>
            \A j \in Jobs : job[j].status = Queued => lock[j] \notin {NoWorker, w}

C6_LeaseCompleteness == [][C6_NoneOnlyWhenClaimed /\ C6_AllReturned']_vars

\* every caller has returned, one of them with None while another holds a job
C6_Witness ==
    /\ LeaseCallers = Workers
    /\ \E w1, w2 \in Workers : returned[w1] = NoJob /\ returned[w2] \in Jobs
    /\ Cardinality(InitiallyQueued) >= 1

\* job j was leased and the worker that leased it has reported it (its
\* iteration of the loop of main is over)
Finished(j) == leases[j] >= 1 /\ \A w \in Workers : cur[w] # j

\* no other job of the backlog that refers to the filing of j has been leased
SoleOnFiling(j) ==
    \A k \in Jobs \ {j} : job[k].filing_id = job[j].filing_id => job[k].status = Queued

StatementsOf(f, kind) == {s \in statement : s.filing_id = f /\ s.type = kind}
AnchorsOf(f) == {a \in anchor : a.filing_id = f}
LinesOf(f) ==
    {l \in statement_line : \E s \in statement : s.id = l.statement_id /\ s.filing_id = f}

\* C2. Atomic assembly: once insert_lines has raised, for whatever reason, no
\* anchor, line or link its call inserted is ever committed, also not after
\* the worker reported the job failed with mark_job on the same connection.
C2_AtomicAssembly ==
    \A j \in il_failed :
        /\ \A a \in anchor : a.by # j
        /\ \A l \in statement_line : l.by # j
        /\ \A d \in datum_anchor : d.by # j

\* C3. Failure scenario: when download_pdf raised for a job whose filing no
\* other job touched, the job ends failed with the text of the retrieval
\* error, and the filing has no statement, no line and no anchor.
C3_FailureScenario ==
    \A j \in Jobs :
        (raised[j] = RetrievalError /\ Finished(j) /\ SoleOnFiling(j)) =>
            /\ job[j].status = Failed
            /\ job[j].error = RetrievalError
            /\ \A kind \in Kinds : StatementsOf(job[j].filing_id, kind) = {}
            /\ LinesOf(job[j].filing_id) = {}
            /\ AnchorsOf(job[j].filing_id) = {}

\* C4. Every exception ends in a failed job: no worker ends with an
\* exception, and once the worker has left a job on which an exception was
\* raised, the job is failed and carries the text of that exception.
C4_FailureReported ==
    /\ \A w \in Workers : pc[w] # "crashed"
    /\ \A j \in Jobs :
          (raised[j] # NoException /\ Finished(j)) =>
              job[j].status = Failed /\ job[j].error = raised[j]

CallCommitted(j) ==
    \/ \E w \in Workers : cur[w] = j /\ pc[w] = "mark_ok"
    \/ job[j].status = Succeeded

\* the rows the call for job j inserted for the line at position p (from 1)
\* and for the anchor at 0-based position i of its arguments
LineRows(j, p) == {l \in statement_line : l.by = j /\ l.pos = p - 1}
AnchorRows(j, i) == {a \in anchor : a.by = j /\ a.pos = i}

AllStatements(f) ==
    {s \in statement \cup UNION {txn[w].statement : w \in Workers} : s.filing_id = f}

\* C9. Idempotent statement creation: after ensure_statements has completed
\* once or more for a filing, called sequentially, the filing has exactly one
\* balance_sheet and one pnl statement, and no later call inserts a statement
\* for it.
C9_Step(f) ==
    /\ es_calls[f] >= 1 => AllStatements(f)' = AllStatements(f)
    /\ es_calls'[f] >= 1 =>
          \A kind \in Kinds : Cardinality(StatementsOf(f, kind))' = 1

C9_IdempotentStatements == [][\A f \in Filings : C9_Step(f)]_vars

\* ensure_statements has completed twice for one filing
C9_Witness == \E f \in Filings : es_calls[f] >= 2

\* C10. Statement uniqueness: a filing never has two statements of one kind.
C10_StatementUniqueness ==
    \A f \in Filings : \A kind \in Kinds : Cardinality(StatementsOf(f, kind)) <= 1

\* the workers between a fetch_one_job call that returned them a job and their
\* mark_job for it, by the filing of the job
ActiveOn(f) ==
    {w \in Workers : /\ cur[w] \in Jobs
                     /\ returned[w] = cur[w]
                     /\ pc[w] # "crashed"
                     /\ job[cur[w]].filing_id = f}

\* C11. Per-filing exclusivity: at any time at most one worker is between a
\* successful lease and its report for a given filing, whatever the backlog,
\* two queued jobs with the same filing_id included.
C11_FilingExclusivity == \A f \in Filings : Cardinality(ActiveOn(f)) <= 1

\* the jobs created strictly before job j whose committed status is queued
EarlierQueued(j) ==
    {k \in Jobs : job[k].created_at < job[j].created_at /\ job[k].status = Queued}

\* the jobs this step moves from queued to processing
Entering == {j \in Jobs : job[j].status = Queued /\ job'[j].status = Processing}

\* C12 as stated. Creation-order consumption: whenever a fetch_one_job call
\* moves job j from queued to processing, no job with a strictly earlier
\* creation time is still in status queued.
C12_CreationOrder == [][\A j \in Entering : EarlierQueued(j) = {}]_vars

\* C12, amended. Creation-order selection: whenever the SELECT of a
\* fetch_one_job call locks job j, and whenever its commit moves j from queued
\* to processing, every job with a strictly earlier creation time that is
\* still queued is locked by another fetch_one_job call in flight.
C12_Selected(w) ==
    {j \in Jobs : lock[j] = NoWorker /\ lock'[j] = w} \cup
    {j \in Entering : lock[j] = w}

C12_CreationOrderSelection ==
    [][\A w \in Workers : \A j \in C12_Selected(w) :
          \A k \in EarlierQueued(j) : lock[k] \notin {NoWorker, w}]_vars

\* a younger job is processing while an older one, locked by a call that has
\* not committed yet, is still queued
C12_Witness ==
    \E j, k \in Jobs :
        /\ job[k].created_at < job[j].created_at
        /\ job[j].status = Processing
        /\ job[k].status = Queued
        /\ lock[k] # NoWorker

\* C13. Deterministic tie-break: a fetch_one_job call started from a backlog
\* state in which several queued jobs share the earliest creation time has one
\* possible outcome: any two runs of the call from that state return the same
\* job.
C13_DeterministicTieBreak ==
    \A w \in Workers : pc[w] = "lease" => Cardinality(Candidates(w)) <= 1

\* the jobs connection w holds a row lock on
LockedBy(w) == {j \in Jobs : lock[j] = w}

\* C14. Empty lease has no effect: when the SELECT of fetch_one_job finds no
\* queued job available to the caller, the call takes no row lock, changes no
\* row of any table, returns None and ends its transaction by rollback: the
\* connection is idle again, has no pending write and holds no row lock.
C14_EmptyLeaseStep(w) ==
    /\ (pc[w] = "lease" /\ pc'[w] = "fj_none") =>
          /\ UNCHANGED dbvars
          /\ LockedBy(w) = {}
    /\ (pc[w] = "fj_none" /\ pc'[w] # "fj_none") =>
          /\ UNCHANGED <<job, statement, anchor, statement_line, datum_anchor>>
          /\ returned'[w] = NoJob
          /\ pc'[w] = "lease"
          /\ conn'[w] = "idle"
          /\ txn'[w] = NoWrites
          /\ \A j \in Jobs : lock'[j] # w
          /\ \A j \in Jobs : lock[j] # w => lock'[j] = lock[j]

C14_EmptyLease == [][\A w \in Workers : C14_EmptyLeaseStep(w)]_vars

\* a call returned None while a queued job, locked by another caller, was in
\* the backlog, and the other caller still holds its lock
C14_Witness ==
    \E w1, w2 \in Workers :
        /\ returned[w1] = NoJob
        /\ pc[w1] = "lease"
        /\ conn[w1] = "idle"
        /\ pc[w2] \in {"fj_update", "fj_commit"}
        /\ lock[cur[w2]] = w2

\* ------------------------------------------------------------- reports
\* Callers report on leased jobs over and over: each call is mark_job with a
\* job id (one of the table, or one no row has), a terminal status and an
\* error text or None. A caller's connection is as main hands it to mark_job:
\* idle (main.py:48) or with its transaction aborted by a statement the server
\* rejected (main.py:51 after such an error in insert_lines).
MissingJob == MaxJobs + 1
JobIds == Jobs \cup {MissingJob}
ReportStatuses == {Succeeded, Failed}
ReportErrors == {NoError, RetrievalError}

MarkInit ==
    /\ job \in {[j \in Jobs |-> [b[j] EXCEPT !.status = Processing]] : b \in Backlogs}
    /\ statement = {}
    /\ anchor = {}
    /\ statement_line = {}
    /\ datum_anchor = {}
    /\ lock = [j \in Jobs |-> NoWorker]
    /\ txn = [w \in Workers |-> NoWrites]
    /\ conn \in [Workers -> {"idle", "aborted"}]
    /\ seq = [w \in Workers |-> 0]
    /\ pc = [w \in Workers |-> "mark"]
    /\ cur = [w \in Workers |-> NoJob]
    /\ result = [w \in Workers |-> EmptyResult]
    /\ anc_ids = [w \in Workers |-> <<>>]
    /\ li = [w \in Workers |-> 1]
    /\ ki = [w \in Workers |-> 1]
    /\ line_id = [w \in Workers |-> NULL]
    /\ exc = [w \in Workers |-> NoException]
    /\ raised = [j \in Jobs |-> NoException]
    /\ leases = [j \in Jobs |-> 1]
    /\ returned = [w \in Workers |-> NoCall]
    /\ engine = [j \in Jobs |-> EmptyResult]
    /\ es_calls = [f \in Filings |-> 0]
    /\ il_failed = {}

\* mark_job, db.py:23-26, returns: the UPDATE writes the row with that id, or
\* no row when none has it, and the commit makes it visible
mark_job_call(w) ==
    /\ pc[w] = "mark"
    /\ conn[w] # "aborted"
    /\ \E job_id \in JobIds, status \in ReportStatuses, error \in ReportErrors :
          mark_job(w, job_id, status, error)
    /\ UNCHANGED <<seq, pc, cur, locals, exc, history>>

\* mark_job, db.py:25, raises: the server rejects the UPDATE of an aborted
\* transaction and the exception leaves mark_job
mark_job_call_raises(w) ==
    /\ pc[w] = "mark"
    /\ conn[w] = "aborted"
    /\ exc' = [exc EXCEPT ![w] = DatabaseError]
    /\ pc' = [pc EXCEPT ![w] = "raised"]
    /\ UNCHANGED <<dbvars, txn, conn, seq, cur, locals, history>>

MarkNext == \E w \in Workers : mark_job_call(w) \/ mark_job_call_raises(w)

MarkSpec == MarkInit /\ [][MarkNext]_vars

\* a mark_job call that returns leaves the row with that id, if there is one,
\* with the status and error of the call and every other row as it was; a
\* second call with the same arguments changes nothing
C15_LastWriteWins ==
    \A w \in Workers, job_id \in JobIds, status \in ReportStatuses,
       error \in ReportErrors :
        (pc[w] = "mark" /\ conn[w] # "aborted"
         /\ mark_job(w, job_id, status, error)) =>
            /\ \A j \in Jobs :
                  IF j = job_id
                  THEN job'[j] = [job[j] EXCEPT !.status = status, !.error = error]
                  ELSE job'[j] = job[j]
            /\ (job_id \in Jobs /\ job[job_id].status = status
                /\ job[job_id].error = error) => job' = job

\* no mark_job call raises
C15_NoCallRaises == \A w \in Workers : exc'[w] = NoException

\* C15. mark_job is idempotent and last-write-wins: in any sequence of
\* mark_job calls (repeated identical calls and calls for a job id that does
\* not exist included) no call raises, after each call the job's status and
\* error are the arguments of that call, and calling twice with the same
\* arguments leaves what calling once leaves.
C15_IdempotentReport == [][C15_NoCallRaises /\ C15_LastWriteWins]_vars

\* the part of C15 that concerns calls that return
C15_ReturningCalls == [][C15_LastWriteWins]_vars

\* the jobs a crashed worker leased and never reported
Abandoned == {j \in Jobs : \E w \in Workers : pc[w] = "crashed" /\ cur[w] = j}

\* C16. No reclaim and no retry: no step of any worker sets a job's status
\* back to queued; a job whose worker crashed after leasing it and before
\* reporting it stays in processing and no fetch_one_job call returns it
\* again; a job that reached failed or succeeded keeps that status.
C16_Step(j) ==
    /\ job[j].status # Queued => job'[j].status # Queued
    /\ job[j].status \in {Succeeded, Failed} => job'[j].status = job[j].status
    /\ j \in Abandoned =>
          /\ job'[j].status = Processing
          /\ leases'[j] = leases[j]
          /\ j \in Abandoned'
    /\ job[j].status # Queued => leases'[j] = leases[j]

C16_NoReclaim == [][\A j \in Jobs : C16_Step(j)]_vars

\* a job abandoned by a crashed worker is in processing while another worker,
\* having finished a job, asked for more and got None
C16_Witness ==
    \E j, k \in Jobs, w \in Workers :
        /\ j \in Abandoned
        /\ job[j].status = Processing
        /\ job[k].status \in {Succeeded, Failed}
        /\ pc[w] = "lease"
        /\ returned[w] = NoJob

\* a committed link refers to a committed line and a committed anchor that the
\* same insert_lines call (the one processing of job `by`) inserted for the
\* same filing
C17_LinkSound(d) ==
    \E l \in statement_line, a \in anchor :
        /\ l.id = d.datum_id
        /\ a.id = d.anchor_id
        /\ l.by = d.by /\ a.by = d.by
        /\ a.filing_id = job[d.by].filing_id
        /\ \E s \in statement : s.id = l.statement_id /\ s.filing_id = a.filing_id

\* a committed line has a committed statement of the filing of its job whose
\* type is the statement_type the line was passed with
C17_LineSound(l) ==
    /\ l.statement_id # NULL
    /\ \E s \in statement :
          /\ s.id = l.statement_id
          /\ s.filing_id = job[l.by].filing_id
          /\ s.type = l.statement_type

\* C17. No dangling provenance: in every committed state, every datum_anchor
\* row refers to a statement_line and an anchor that both exist, were inserted
\* by the same insert_lines call and belong to the same filing; and every
\* statement_line has a non-null statement of its filing whose type equals the
\* line's statement_type.
C17_NoDanglingProvenance ==
    /\ \A d \in datum_anchor : C17_LinkSound(d)
    /\ \A l \in statement_line : C17_LineSound(l)

\* two lines of one job are committed, each linked to its anchor, while the
\* filing has a second job
C17_Witness ==
    \E j, k \in Jobs :
        /\ j # k
        /\ job[j].filing_id = job[k].filing_id
        /\ Cardinality({l \in statement_line : l.by = j}) = 2
        /\ Cardinality({d \in datum_anchor : d.by = j}) = 2

\* C18. Append-only audit trail: no step of any worker modifies or deletes a
\* committed statement, statement_line, anchor or datum_anchor row, and no job
\* row is deleted (its filing and creation time stay as well); processing a
\* second job of a filing adds lines and anchors and leaves the earlier ones
\* as they are.
C18_AppendOnly ==
    [][/\ statement \subseteq statement'
       /\ statement_line \subseteq statement_line'
       /\ anchor \subseteq anchor'
       /\ datum_anchor \subseteq datum_anchor'
       /\ \A r \in statement' \ statement : \A s \in statement : s.id # r.id
       /\ \A r \in statement_line' \ statement_line :
             \A s \in statement_line : s.id # r.id
       /\ \A r \in anchor' \ anchor : \A s \in anchor : s.id # r.id
       /\ DOMAIN job' = DOMAIN job
       /\ \A j \in Jobs : /\ job'[j].filing_id = job[j].filing_id
                          /\ job'[j].created_at = job[j].created_at]_vars

\* two jobs of one filing have both been processed: the lines, anchors and
\* links of both are committed side by side
C18_Witness ==
    \E j, k \in Jobs :
        /\ j # k
        /\ job[j].filing_id = job[k].filing_id
        /\ job[j].status = Succeeded /\ job[k].status = Succeeded
        /\ \A i \in {j, k} :
              /\ {l \in statement_line : l.by = i} # {}
              /\ {a \in anchor : a.by = i} # {}
              /\ {d \in datum_anchor : d.by = i} # {}

\* every line and every anchor of result `res` is committed as exactly one row
\* inserted for job j
C19_ResultCommitted(j, res) ==
    /\ \A p \in 1..Len(res.lines) : Cardinality(LineRows(j, p)) = 1
    /\ \A i \in 0..(Len(res.anchors) - 1) : Cardinality(AnchorRows(j, i)) = 1
    /\ Cardinality({l \in statement_line : l.by = j}) = Len(res.lines)
    /\ Cardinality({a \in anchor : a.by = j}) = Len(res.anchors)

\* C19. Status/error consistency under the worker loop: in every reachable
\* state a job with status succeeded has error null, no exception was raised
\* while it was processed, and all lines and anchors of its engine result are
\* committed; a job with status failed has a non-null error equal to the text
\* of the exception that aborted its processing; a worker about to report
\* succeeded has had its insert_lines call commit.
C19_StatusErrorConsistency ==
    /\ \A j \in Jobs :
          /\ job[j].status = Succeeded =>
                /\ job[j].error = NoError
                /\ raised[j] = NoException
                /\ j \notin il_failed
                /\ C19_ResultCommitted(j, engine[j])
          /\ job[j].status = Failed =>
                /\ job[j].error # NoError
                /\ raised[j] # NoException
                /\ job[j].error = raised[j]
          /\ job[j].status \in {Queued, Processing} => job[j].error = NoError
    /\ \A w \in Workers :
          pc[w] = "mark_ok" =>
              /\ engine[cur[w]] = result[w]
              /\ raised[cur[w]] = NoException
              /\ txn[w] = NoWrites
              /\ C19_ResultCommitted(cur[w], result[w])

\* one job succeeded with a two-line result and another failed with the text
\* of the exception raised while it was processed
C19_Witness ==
    \E j, k \in Jobs :
        /\ job[j].status = Succeeded
        /\ Len(engine[j].lines) = 2
        /\ job[k].status = Failed
        /\ job[k].error = RetrievalError

\* the anchor-index contract on a result: as many anchors as lines, and the
\* k-th line (from 0) declares the one anchor index k
C20_Contract(res) ==
    /\ Len(res.anchors) = Len(res.lines)
    /\ \A k \in 1..Len(res.lines) : res.lines[k].anchor_indices = <<k - 1>>
    /\ \A k \in 1..Len(res.lines) :
          \A n \in 1..Len(res.lines[k].anchor_indices) :
              LET i == res.lines[k].anchor_indices[n]
              IN 0 <= i /\ i < Len(res.anchors)

\* C20. Engine output respects the anchor-index contract: for every document
\* the result of parse_mvp has as many anchors as lines and its k-th line
\* declares exactly one anchor index, k, so every declared index i has
\* 0 <= i < len(anchors); and insert_lines, run on a result of parse_mvp,
\* never indexes outside the anchors it inserted.
C20_AnchorIndexContract ==
    /\ \A doc \in Docs : C20_Contract(parse_mvp(doc))
    /\ \A w \in Workers : C20_Contract(result[w])
    /\ \A w \in Workers :
          pc[w] = "il_link" => /\ InRange(anc_ids[w], Idx(w))
                               /\ Idx(w) >= 0
                               /\ Len(anc_ids[w]) = Len(result[w].anchors)
    /\ \A j \in Jobs : raised[j] # IndexError

\* insert_lines is at the link of the second line of a two-line result of
\* parse_mvp
C20_Witness ==
    \E w \in Workers :
        /\ pc[w] = "il_link"
        /\ Len(result[w].lines) = 2
        /\ li[w] = 2
        /\ Idx(w) = 1
====
